---- MODULE Spec2Model ----
(***************************************************************************)
(* flatten-internal-urls: the FQDN-flattening and alias-resolution rewrite *)
(* of src/flatten_internal_urls.py.                                        *)
(*                                                                         *)
(* A text is a sequence of one-character strings.  The two regular         *)
(* expressions of the module are modelled by what Python's re.sub does     *)
(* with them: a left-to-right scan that, at each position, tries the       *)
(* pattern (greedy alternatives first) and on a match emits the            *)
(* replacement and resumes after the match.                                *)
(***************************************************************************)
EXTENDS Integers, Sequences, FiniteSets, TLC

(* ------------------------------ characters ----------------------------- *)

Lower ==
    {"a", "b", "c", "d", "e", "f", "g", "h", "i", "j", "k", "l", "m",
     "n", "o", "p", "q", "r", "s", "t", "u", "v", "w", "x", "y", "z"}

Digit ==
    {"0", "1", "2", "3", "4", "5", "6", "7", "8", "9"}

\* [a-z0-9]
AlnumLower ==
    Lower \cup Digit

\* [a-z0-9-]
LabelChars ==
    AlnumLower \cup {"-"}

\* \s (the ASCII members a TLA+ string can hold)
Whitespace ==
    {" ", "\t", "\n", "\r", "\f"}

\* ["']
Quote ==
    {"\"", "'"}

\* the lookbehind class [/@]
LookbehindChars ==
    {"/", "@"}

\* the lookahead class [/:\s"']
LookaheadChars ==
    {"/", ":"} \cup Whitespace \cup Quote

SvcLit ==
    <<"s", "v", "c">>

ClusterLocalLit ==
    <<".", "c", "l", "u", "s", "t", "e", "r", ".", "l", "o", "c", "a", "l">>

(* ------------------------------ text helpers --------------------------- *)

\* the character at 1-based position i, or "" outside the text
At(t, i) ==
    IF i >= 1 /\ i <= Len(t) THEN t[i] ELSE ""

\* the literal lit occurs in t at position i
HasAt(t, i, lit) ==
    /\ i >= 1
    /\ i + Len(lit) - 1 <= Len(t)
    /\ SubSeq(t, i, i + Len(lit) - 1) = lit

SetMax(S) ==
    CHOOSE x \in S : \A y \in S : y <= x

(* -------------------- _K8S_DNS_RE and _rewrite_k8s_dns ----------------- *)

\* The positions just after a match of [a-z0-9](?:[a-z0-9-]*[a-z0-9])? that
\* starts at i: the single character, or any longer run of label characters
\* that ends in an alphanumeric.
LabelEnds(t, i) ==
    IF At(t, i) \notin AlnumLower
    THEN {}
    ELSE {i + 1} \cup
         {j \in (i + 2)..(Len(t) + 1) :
             /\ \A p \in (i + 1)..(j - 2) : t[p] \in LabelChars
             /\ t[j - 1] \in AlnumLower}

\* the pattern without its optional group: svc alone
SvcEndNoSuffix(t, s) ==
    IF HasAt(t, s, SvcLit) THEN s + 3 ELSE 0

\* svc(?:\.cluster\.local)? tried at position s: the end of the match, the
\* optional group taken whenever it matches (greedy), or 0 when svc is absent.
SvcEnd(t, s) ==
    IF ~HasAt(t, s, SvcLit) THEN 0
    ELSE IF HasAt(t, s + 3, ClusterLocalLit) THEN s + 3 + Len(ClusterLocalLit)
    ELSE s + 3

\* The ways the whole pattern matches at i: <<j1, j2>> with the service label
\* in i..j1-1, a dot at j1, the namespace label in j1+1..j2-1, a dot at j2 and
\* svc at j2+1.
K8sCandidates(t, i) ==
    UNION {{<<j1, j2>> : j2 \in {j \in LabelEnds(t, j1 + 1) :
                                    At(t, j) = "." /\ SvcEnd(t, j + 1) # 0}} :
           j1 \in {j \in LabelEnds(t, i) : At(t, j) = "."}}

\* _K8S_DNS_RE.match at position i: the backtracking engine's first success,
\* longest service label first, then longest namespace label.
K8sMatch(t, i) ==
    LET cands == K8sCandidates(t, i) IN
    IF cands = {}
    THEN [found |-> FALSE, g1 |-> <<>>, end |-> i]
    ELSE LET j1 == SetMax({c[1] : c \in cands})
             j2 == SetMax({c[2] : c \in {d \in cands : d[1] = j1}})
         IN  [found |-> TRUE, g1 |-> SubSeq(t, i, j1 - 1), end |-> SvcEnd(t, j2 + 1)]

\* _K8S_DNS_RE.sub(r'\1', text), from position i on
RECURSIVE K8sSubFrom(_, _)
K8sSubFrom(t, i) ==
    IF i > Len(t) THEN <<>>
    ELSE LET m == K8sMatch(t, i) IN
         IF m.found
         THEN m.g1 \o K8sSubFrom(t, m.end)
         ELSE <<t[i]>> \o K8sSubFrom(t, i + 1)

_rewrite_k8s_dns(text) ==
    K8sSubFrom(text, 1)

(* --------------------------- _apply_alias_map -------------------------- *)

\* the pattern without its lookbehind
LookbehindAny(t, i) ==
    TRUE

\* (?<=[/@]) at position i
Lookbehind(t, i) ==
    At(t, i - 1) \in LookbehindChars

\* (?=[/:\s"']|$) at position p; without re.MULTILINE $ is the end of the
\* text or the position before a final newline
Lookahead(t, p) ==
    \/ At(t, p) \in LookaheadChars
    \/ p = Len(t) + 1
    \/ (p = Len(t) /\ t[p] = "\n")

\* the pattern of one alias matches at position i
AliasMatchAt(t, i, alias) ==
    /\ Lookbehind(t, i)
    /\ HasAt(t, i, alias)
    /\ Lookahead(t, i + Len(alias))

\* re.sub(pattern(alias), target, text), from position i on (alias nonempty)
RECURSIVE AliasSubFrom(_, _, _, _)
AliasSubFrom(t, i, alias, target) ==
    IF i > Len(t) THEN <<>>
    ELSE IF AliasMatchAt(t, i, alias)
         THEN target \o AliasSubFrom(t, i + Len(alias), alias, target)
         ELSE <<t[i]>> \o AliasSubFrom(t, i + 1, alias, target)

\* one iteration of the loop over alias_map.items()
AliasPass(t, item) ==
    AliasSubFrom(t, 1, item.alias, item.target)

\* the loop, from the k-th item of the map on
RECURSIVE ApplyAliasFrom(_, _, _)
ApplyAliasFrom(t, alias_map, k) ==
    IF k > Len(alias_map) THEN t
    ELSE ApplyAliasFrom(AliasPass(t, alias_map[k]), alias_map, k + 1)

_apply_alias_map(text, alias_map) ==
    ApplyAliasFrom(text, alias_map, 1)

(* ------------------------------ _rewrite_text -------------------------- *)

_rewrite_text(text, alias_map) ==
    LET t1 == _rewrite_k8s_dns(text) IN
    IF alias_map # <<>> THEN _apply_alias_map(t1, alias_map) ELSE t1

(* ----------------------- Python values of the structures --------------- *)

\* A dict is a function from its keys; what is not a dict carries the empty one.
EmptyDict ==
    [x \in {} |-> ""]

DictWithout(d, key) ==
    [x \in (DOMAIN d) \ {key} |-> d[x]]

\* svc.get("networks"): no such key (None), or a dict from network name to
\* network-config
NetworksAbsent ==
    [t |-> "absent", d |-> EmptyDict]

NetworksDict(d) ==
    [t |-> "dict", d |-> d]

\* a network-config: None, or a dict of fields
CfgNone ==
    [t |-> "none", d |-> EmptyDict]

CfgDict(d) ==
    [t |-> "dict", d |-> d]

\* Python's "not v" for a network-config
Falsy(cfg) ==
    \/ cfg.t = "none"
    \/ (cfg.t = "dict" /\ DOMAIN cfg.d = {})

\* svc.get("environment"): no such key, a value that is no dict (the list
\* form), or a dict from variable name to value
EnvAbsent ==
    [t |-> "absent", d |-> EmptyDict]

EnvList ==
    [t |-> "list", d |-> EmptyDict]

EnvDict(d) ==
    [t |-> "dict", d |-> d]

\* an environment value: a str, or something else (an int, a bool, None)
Str(s) ==
    [t |-> "str", s |-> s]

NonStr ==
    [t |-> "int", s |-> <<>>]

\* an optional field of a Caddy entry: <<>> when the key is missing, <<v>> when set
Missing ==
    <<>>

Set(v) ==
    <<v>>

\* entry.get(field, "")
GetOrEmpty(opt) ==
    IF opt = Missing THEN <<>> ELSE opt[1]

(* ------------------------------ _strip_aliases ------------------------- *)

\* a body that also drops the network-configs it has emptied
StripServiceDropEmptied(svc) ==
    LET networks == svc.networks IN
    IF networks.t # "dict" THEN svc
    ELSE LET keep == {n \in DOMAIN networks.d :
                         ~(networks.d[n].t = "dict" /\ DOMAIN networks.d[n].d = {"aliases"})}
             popped == [n \in keep |->
                          IF networks.d[n].t = "dict"
                          THEN CfgDict(DictWithout(networks.d[n].d, "aliases"))
                          ELSE networks.d[n]]
         IN  IF \A n \in DOMAIN popped : Falsy(popped[n])
             THEN [svc EXCEPT !.networks = NetworksAbsent]
             ELSE [svc EXCEPT !.networks = NetworksDict(popped)]

\* a body without the final "del svc['networks']"
StripServiceKeepNetworks(svc) ==
    LET networks == svc.networks IN
    IF networks.t # "dict" THEN svc
    ELSE [svc EXCEPT !.networks = NetworksDict(
             [n \in DOMAIN networks.d |->
                 IF networks.d[n].t = "dict"
                 THEN CfgDict(DictWithout(networks.d[n].d, "aliases"))
                 ELSE networks.d[n]])]

\* the body of the loop over compose_services.values()
StripService(svc) ==
    LET networks == svc.networks IN
    IF networks.t # "dict" THEN svc
    ELSE LET popped == [n \in DOMAIN networks.d |->
                          IF networks.d[n].t = "dict"
                          THEN CfgDict(DictWithout(networks.d[n].d, "aliases"))
                          ELSE networks.d[n]]
         IN  IF \A n \in DOMAIN popped : Falsy(popped[n])
             THEN [svc EXCEPT !.networks = NetworksAbsent]
             ELSE [svc EXCEPT !.networks = NetworksDict(popped)]

(* ------------------------------- _rewrite_env -------------------------- *)

\* a body that only flattens FQDNs and never consults the alias map
RewriteEnvServiceK8sOnly(svc, am) ==
    LET env == svc.environment IN
    IF env.t # "dict" \/ DOMAIN env.d = {}
    THEN [svc |-> svc, writes |-> {}]
    ELSE LET new == [key \in DOMAIN env.d |->
                       IF env.d[key].t = "str"
                       THEN Str(_rewrite_k8s_dns(env.d[key].s))
                       ELSE env.d[key]]
         IN  [svc |-> [svc EXCEPT !.environment = EnvDict(new)],
              writes |-> {key \in DOMAIN env.d : new[key] # env.d[key]}]

\* the body of the loop over compose_services.values(): the service after it,
\* and the keys it assigned
RewriteEnvService(svc, am) ==
    LET env == svc.environment IN
    IF env.t # "dict" \/ DOMAIN env.d = {}
    THEN [svc |-> svc, writes |-> {}]
    ELSE LET new == [key \in DOMAIN env.d |->
                       IF env.d[key].t = "str"
                       THEN Str(_rewrite_text(env.d[key].s, am))
                       ELSE env.d[key]]
         IN  [svc |-> [svc EXCEPT !.environment = EnvDict(new)],
              writes |-> {key \in DOMAIN env.d : new[key] # env.d[key]}]

(* ------------------------------ _rewrite_caddy ------------------------- *)

\* the position rsplit(":", 1) splits at: scanning from the right end, the
\* first colon met; 0 when there is none
RECURSIVE RSplitFrom(_, _)
RSplitFrom(t, i) ==
    IF i = 0 THEN 0
    ELSE IF t[i] = ":" THEN i
    ELSE RSplitFrom(t, i - 1)

\* the position split(":", 1) would split at: the first colon, 0 when there is none
SplitAtFirst(t) ==
    IF \E i \in 1..Len(t) : t[i] = ":"
    THEN CHOOSE i \in 1..Len(t) : t[i] = ":" /\ \A j \in 1..(i - 1) : t[j] # ":"
    ELSE 0

RSplitPos(t) ==
    RSplitFrom(t, Len(t))

\* alias_map.get(host, host)
AliasGet(am, host) ==
    IF \E i \in 1..Len(am) : am[i].alias = host
    THEN am[CHOOSE i \in 1..Len(am) : am[i].alias = host].target
    ELSE host

\* lines 99-110: the upstream field after the body, and whether it was assigned
RewriteUpstream(entry, am) ==
    LET upstream == GetOrEmpty(entry.upstream)
        flat == _rewrite_k8s_dns(upstream)
        c == RSplitPos(flat)
        rewritten == IF c > 0
                     THEN AliasGet(am, SubSeq(flat, 1, c - 1)) \o <<":">>
                              \o SubSeq(flat, c + 1, Len(flat))
                     ELSE AliasGet(am, flat)
    IN  IF rewritten # upstream
        THEN [value |-> Set(rewritten), written |-> TRUE]
        ELSE [value |-> entry.upstream, written |-> FALSE]

\* lines 112-116
RewriteSni(entry) ==
    LET sni == GetOrEmpty(entry.server_sni)
        rewritten == _rewrite_k8s_dns(sni)
    IN  IF sni # <<>> /\ rewritten # sni
        THEN [value |-> Set(rewritten), written |-> TRUE]
        ELSE [value |-> entry.server_sni, written |-> FALSE]

\* the body of the loop over caddy_entries
RewriteCaddyEntry(entry, am) ==
    LET u == RewriteUpstream(entry, am)
        s == RewriteSni(entry)
    IN  [entry |-> [upstream |-> u.value, server_sni |-> s.value],
         writes |-> (IF u.written THEN {"upstream"} ELSE {})
                    \cup (IF s.written THEN {"server_sni"} ELSE {})]

(* ------------------------------- the state ----------------------------- *)

VARIABLES
    alias_map,          \* ctx.alias_map: the items of the mapping, in iteration order
    text,               \* the text handed to a rewriting function
    cur,                \* the text the latest call or loop iteration started from
    result,             \* what it returned
    k,                  \* how many items of alias_map the loop of _apply_alias_map has applied
    op,                 \* which function produced result
    compose_services,   \* service -> [networks, environment], in iteration order
    cm_dir,             \* os.path.isdir(<output_dir>/configmaps)
    disk,               \* file -> its content on disk, in os.walk order
    caddy_entries,      \* the sequence of Caddy entries
    pc,                 \* the stage transform is in, "done", or "raised"
    idx,                \* the item the loop of that stage is at
    orig,               \* the structures and files as transform received them
    assigned,           \* the places transform has assigned to: <<kind, item, key>>
    log                 \* the loop iterations run so far, in order

text_vars ==
    <<text, cur, result, k, op>>

transform_vars ==
    <<compose_services, cm_dir, disk, caddy_entries, pc, idx, orig, assigned, log>>

vars ==
    <<alias_map, text_vars, transform_vars>>

(* --------------------------- inputs of the text functions -------------- *)

\* how many pieces a generated text is made of at most
MaxPieces ==
    3

Pieces ==
    {<<"a">>, <<"b">>, <<"-">>, <<".">>, <<"/">>, <<":">>, <<"@">>, <<" ">>, <<"'">>,
     <<".", "s", "v", "c">>, <<".", "b", ".", "s", "v", "c">>, ClusterLocalLit}

RECURSIVE TextsUpTo(_)
TextsUpTo(n) ==
    IF n = 0 THEN {<<>>}
    ELSE LET S == TextsUpTo(n - 1) IN S \cup {s \o p : s \in S, p \in Pieces}

GenTexts ==
    TextsUpTo(MaxPieces)

Item(a, t) ==
    [alias |-> a, target |-> t]

NoAliases ==
    <<>>

\* a -> ab, then b -> a: the first target is rewritten again by the second item
ChainedMap ==
    <<Item(<<"a">>, <<"b">>), Item(<<"b">>, <<"a", "b">>)>>

\* the same items in the other order
ChainedMapReversed ==
    <<Item(<<"b">>, <<"a", "b">>), Item(<<"a">>, <<"b">>)>>

LongKeyMap ==
    <<Item(<<"a", "-", "b">>, <<"a">>)>>

GenMaps ==
    {NoAliases, ChainedMap, ChainedMapReversed, LongKeyMap}

CacheMap ==
    <<Item(<<"c", "a", "c", "h", "e">>, <<"r", "e", "d", "i", "s">>)>>

ExRedisFqdn ==
    <<"r", "e", "d", "i", "s", ":", "/", "/", "c", "a", "c", "h", "e", ".", "d", "e", "f", "a", "u", "l", "t", ".", "s", "v", "c", ".", "c", "l", "u", "s", "t", "e", "r", ".", "l", "o", "c", "a", "l", ":", "6", "3", "7", "9", "/", "0">>

ExRedisShort ==
    <<"r", "e", "d", "i", "s", ":", "/", "/", "c", "a", "c", "h", "e", ":", "6", "3", "7", "9", "/", "0">>

ExApiFqdn ==
    <<"h", "t", "t", "p", ":", "/", "/", "a", "p", "i", ".", "p", "r", "o", "d", ".", "s", "v", "c", "/", "h", "e", "a", "l", "t", "h">>

ExApiShort ==
    <<"h", "t", "t", "p", ":", "/", "/", "a", "p", "i", "/", "h", "e", "a", "l", "t", "h">>

ExBucket ==
    <<"s", "3", ":", "/", "/", "m", "y", "-", "c", "a", "c", "h", "e", "-", "b", "u", "c", "k", "e", "t", "/", "o", "b", "j">>

ExCacheUrl ==
    <<"r", "e", "d", "i", "s", ":", "/", "/", "c", "a", "c", "h", "e", ":", "6", "3", "7", "9">>

ExRedisUrl ==
    <<"r", "e", "d", "i", "s", ":", "/", "/", "r", "e", "d", "i", "s", ":", "6", "3", "7", "9">>

ExampleInputs ==
    {<<ExRedisFqdn, NoAliases>>, <<ExApiFqdn, NoAliases>>,
     <<ExBucket, CacheMap>>, <<ExCacheUrl, CacheMap>>, <<ExRedisFqdn, CacheMap>>}

TextInputs ==
    (GenTexts \X GenMaps) \cup ExampleInputs

(* ------------------------ the text functions as actions ---------------- *)

TextInit ==
    /\ \E in \in TextInputs : text = in[1] /\ alias_map = in[2]
    /\ cur = <<>>
    /\ result = <<>>
    /\ k = 0
    /\ op = "input"
    /\ compose_services = <<>>
    /\ cm_dir = FALSE
    /\ disk = <<>>
    /\ caddy_entries = <<>>
    /\ pc = "idle"
    /\ idx = 0
    /\ orig = <<>>
    /\ assigned = {}
    /\ log = <<>>

\* a call _rewrite_k8s_dns(text)
RewriteK8sDns ==
    /\ op = "input"
    /\ cur' = text
    /\ result' = _rewrite_k8s_dns(text)
    /\ op' = "k8s"
    /\ UNCHANGED <<alias_map, text, k, transform_vars>>

\* one iteration of the loop of a call _apply_alias_map(text, alias_map)
ApplyAliasStep ==
    /\ op \in {"input", "alias"}
    /\ k < Len(alias_map)
    /\ cur' = (IF k = 0 THEN text ELSE result)
    /\ result' = AliasPass(cur', alias_map[k + 1])
    /\ k' = k + 1
    /\ op' = "alias"
    /\ UNCHANGED <<alias_map, text, transform_vars>>

\* a call _rewrite_text(text, alias_map)
RewriteText ==
    /\ op = "input"
    /\ cur' = text
    /\ result' = _rewrite_text(text, alias_map)
    /\ op' = "rewrite"
    /\ UNCHANGED <<alias_map, text, k, transform_vars>>

\* a second call, on what the first returned
RewriteTextAgain ==
    /\ op = "rewrite"
    /\ cur' = result
    /\ result' = _rewrite_text(result, alias_map)
    /\ op' = "again"
    /\ UNCHANGED <<alias_map, text, k, transform_vars>>

TextNext ==
    \/ RewriteK8sDns
    \/ ApplyAliasStep
    \/ RewriteText
    \/ RewriteTextAgain

TextSpec ==
    TextInit /\ [][TextNext]_vars

(* ------------------------------ inputs of transform -------------------- *)

NumServices ==
    2

NumFiles ==
    2

NumEntries ==
    2

Services ==
    1..NumServices

Files ==
    1..NumFiles

UrlFqdn ==
    <<"/", "a", ".", "b", ".", "s", "v", "c", ":", "8">>

BareFqdn ==
    <<"a", ".", "b", ".", "s", "v", "c", ":", "8">>

Fqdn ==
    <<"a", ".", "b", ".", "s", "v", "c">>

FqdnLocal ==
    Fqdn \o ClusterLocalLit

UrlShort ==
    <<"/", "a", ":", "8">>

PlainValue ==
    <<"p", "-", "v">>

TwoColons ==
    <<"a", ":", "b", ":", "8">>

Aliases ==
    "aliases" :> "[a, b]"

EmptyAliases ==
    "aliases" :> "[]"

DriverOpts ==
    "driver_opts" :> "{x: 1}"

NetworksShapes ==
    {NetworksAbsent, NetworksDict(EmptyDict),
     NetworksDict("net1" :> CfgNone),
     NetworksDict("net1" :> CfgDict(EmptyDict)),
     NetworksDict("net1" :> CfgDict(Aliases)),
     NetworksDict("net1" :> CfgDict(EmptyAliases)),
     NetworksDict("net1" :> CfgDict(DriverOpts)),
     NetworksDict("net1" :> CfgDict(Aliases @@ DriverOpts)),
     NetworksDict(("net1" :> CfgDict(Aliases)) @@ ("net2" :> CfgDict(DriverOpts))),
     NetworksDict(("net1" :> CfgDict(Aliases)) @@ ("net2" :> CfgDict(EmptyAliases))),
     NetworksDict(("net1" :> CfgDict(Aliases)) @@ ("net2" :> CfgNone)),
     NetworksDict(("net1" :> CfgDict(DriverOpts)) @@ ("net2" :> CfgDict(Aliases @@ DriverOpts)))}

EnvShapes ==
    {EnvAbsent, EnvList, EnvDict(EmptyDict),
     EnvDict("A" :> Str(UrlFqdn)),
     EnvDict("A" :> Str(PlainValue)),
     EnvDict("A" :> NonStr),
     EnvDict(("A" :> Str(BareFqdn)) @@ ("B" :> NonStr)),
     EnvDict(("A" :> Str(UrlShort)) @@ ("B" :> Str(PlainValue))),
     EnvDict(("A" :> Str(PlainValue)) @@ ("B" :> Str(UrlFqdn)))}

ExUpstream ==
    <<"s", "v", "c", "-", "a", ".", "n", "s", ".", "s", "v", "c", ".", "c", "l", "u", "s", "t", "e", "r", ".", "l", "o", "c", "a", "l", ":", "8", "0", "8", "0">>

ExUpstreamResolved ==
    <<"s", "e", "r", "v", "i", "c", "e", "-", "a", ":", "8", "0", "8", "0">>

ExSni ==
    <<"s", "v", "c", "-", "a", ".", "n", "s", ".", "s", "v", "c">>

SvcAMap ==
    <<Item(<<"s", "v", "c", "-", "a">>, <<"s", "e", "r", "v", "i", "c", "e", "-", "a">>)>>

Entry(u, s) ==
    [upstream |-> u, server_sni |-> s]

EntryShapes ==
    {Entry(Set(BareFqdn), Missing),
     Entry(Set(FqdnLocal \o <<":", "8">>), Set(Fqdn)),
     Entry(Missing, Missing),
     Entry(Set(<<>>), Set(<<>>)),
     Entry(Set(<<"a", ":", "8">>), Set(<<"a">>)),
     Entry(Set(TwoColons), Set(FqdnLocal)),
     Entry(Set(Fqdn), Missing),
     Entry(Set(<<"b">>), Set(PlainValue)),
     Entry(Set(<<"p", ":", "8">>), Missing),
     Entry(Set(ExUpstream), Set(ExSni))}

FileTexts ==
    {UrlFqdn, Fqdn, UrlShort, PlainValue, <<>>}

TransformMaps ==
    {NoAliases, ChainedMap, ChainedMapReversed}

Service(n, e) ==
    [networks |-> n, environment |-> e]

DefaultService ==
    Service(NetworksDict("net1" :> CfgDict(Aliases)), EnvDict("A" :> Str(UrlFqdn)))

DefaultEntry ==
    Entry(Set(BareFqdn), Set(Fqdn))

(* ---------------------------------- transform -------------------------- *)

\* the order of the four calls in transform
StageOrderEnvFirst ==
    <<"env", "strip", "files", "caddy">>

StageOrder ==
    <<"strip", "env", "files", "caddy">>

\* how many iterations the loop of a stage runs
Count(stage) ==
    CASE stage = "strip" -> Cardinality(DOMAIN compose_services)
      [] stage = "env"   -> Cardinality(DOMAIN compose_services)
      [] stage = "files" -> IF cm_dir THEN Cardinality(DOMAIN disk) ELSE 0
      [] stage = "caddy" -> Len(caddy_entries)

\* the first iteration of the n-th call or a later one; a call whose loop has
\* nothing to run returns at once
RECURSIVE FirstFrom(_)
FirstFrom(n) ==
    IF n > Len(StageOrder) THEN <<"done", 0>>
    ELSE IF Count(StageOrder[n]) > 0 THEN <<StageOrder[n], 1>>
    ELSE FirstFrom(n + 1)

\* where control is after iteration i of a stage
After(stage, i) ==
    IF i < Count(stage) THEN <<stage, i + 1>>
    ELSE FirstFrom(1 + CHOOSE n \in 1..Len(StageOrder) : StageOrder[n] = stage)

Step(stage) ==
    /\ pc' = After(stage, idx)[1]
    /\ idx' = After(stage, idx)[2]
    /\ log' = Append(log, [stage |-> stage, item |-> idx])

Raise(stage) ==
    /\ pc' = "raised"
    /\ idx' = idx
    /\ log' = Append(log, [stage |-> stage, item |-> idx])

InitWith(services, files, dirs, entries, maps) ==
    /\ compose_services \in [Services -> services]
    /\ cm_dir \in dirs
    /\ disk \in [Files -> files]
    /\ caddy_entries \in [1..NumEntries -> entries]
    /\ alias_map \in maps
    /\ orig = [services |-> compose_services, disk |-> disk, caddy |-> caddy_entries]
    /\ pc = FirstFrom(1)[1]
    /\ idx = FirstFrom(1)[2]
    /\ assigned = {}
    /\ log = <<>>
    /\ text = <<>>
    /\ cur = <<>>
    /\ result = <<>>
    /\ k = 0
    /\ op = "idle"

\* the inputs, one surface varied at a time
Init ==
    \/ InitWith({Service(n, DefaultService.environment) : n \in NetworksShapes},
                {UrlFqdn}, {TRUE}, {DefaultEntry}, TransformMaps)
    \/ InitWith({Service(DefaultService.networks, e) : e \in EnvShapes},
                {UrlFqdn}, {TRUE}, {DefaultEntry}, TransformMaps)
    \/ InitWith({DefaultService}, FileTexts, BOOLEAN, {DefaultEntry}, TransformMaps)
    \/ InitWith({DefaultService}, {UrlFqdn}, {TRUE}, EntryShapes, TransformMaps \cup {SvcAMap})

\* one iteration of the loop of _strip_aliases
StripAliases ==
    /\ pc = "strip"
    /\ compose_services' = [compose_services EXCEPT ![idx] = StripService(@)]
    /\ Step("strip")
    /\ UNCHANGED <<alias_map, text_vars, cm_dir, disk, caddy_entries, orig, assigned>>

\* one iteration of the outer loop of _rewrite_env
RewriteEnv ==
    /\ pc = "env"
    /\ LET r == RewriteEnvService(compose_services[idx], alias_map) IN
        /\ compose_services' = [compose_services EXCEPT ![idx] = r.svc]
        /\ assigned' = assigned \cup {<<"env", idx, key>> : key \in r.writes}
    /\ Step("env")
    /\ UNCHANGED <<alias_map, text_vars, cm_dir, disk, caddy_entries, orig>>

\* one iteration of the loop of _rewrite_configmap_files with no I/O error:
\* the file is read and, when the rewritten text differs, written back
RewriteFile ==
    /\ pc = "files"
    /\ LET rewritten == _rewrite_text(disk[idx], alias_map) IN
        IF rewritten # disk[idx]
        THEN /\ disk' = [disk EXCEPT ![idx] = rewritten]
             /\ assigned' = assigned \cup {<<"file", idx, "">>}
        ELSE UNCHANGED <<disk, assigned>>
    /\ Step("files")
    /\ UNCHANGED <<alias_map, text_vars, compose_services, cm_dir, caddy_entries, orig>>

\* open(fpath, "r") or f.read() raises (an unreadable file, bytes that are not
\* UTF-8): the exception leaves transform
FileReadError ==
    /\ pc = "files"
    /\ Raise("files")
    /\ UNCHANGED <<alias_map, text_vars, compose_services, cm_dir, disk, caddy_entries,
                   orig, assigned>>

\* open(fpath, "w") raises before the file is touched (a read-only file)
FileOpenForWriteError ==
    /\ pc = "files"
    /\ _rewrite_text(disk[idx], alias_map) # disk[idx]
    /\ Raise("files")
    /\ UNCHANGED <<alias_map, text_vars, compose_services, cm_dir, disk, caddy_entries,
                   orig, assigned>>

\* open(fpath, "w") has truncated the file and f.write or the flush at close
\* raises (a full disk): some proper prefix of the new text is on disk
FileWriteError ==
    /\ pc = "files"
    /\ LET rewritten == _rewrite_text(disk[idx], alias_map) IN
        /\ rewritten # disk[idx]
        /\ \E n \in 0..(Len(rewritten) - 1) :
              disk' = [disk EXCEPT ![idx] = SubSeq(rewritten, 1, n)]
    /\ Raise("files")
    /\ UNCHANGED <<alias_map, text_vars, compose_services, cm_dir, caddy_entries,
                   orig, assigned>>

\* one iteration of the loop of _rewrite_caddy
RewriteCaddy ==
    /\ pc = "caddy"
    /\ LET r == RewriteCaddyEntry(caddy_entries[idx], alias_map) IN
        /\ caddy_entries' = [caddy_entries EXCEPT ![idx] = r.entry]
        /\ assigned' = assigned \cup {<<"caddy", idx, f>> : f \in r.writes}
    /\ Step("caddy")
    /\ UNCHANGED <<alias_map, text_vars, compose_services, cm_dir, disk, orig>>

Next ==
    \/ StripAliases
    \/ RewriteEnv
    \/ RewriteFile
    \/ FileReadError
    \/ FileOpenForWriteError
    \/ FileWriteError
    \/ RewriteCaddy

Spec ==
    Init /\ [][Next]_vars

(* -------------------------------- C1 ----------------------------------- *)

\* C1: the composed rewriter is idempotent: rewriting what _rewrite_text
\* returned, with the same alias map, returns it unchanged.
RewriteIdempotent ==
    op = "again" => result = cur

(* -------------------------------- C3 ----------------------------------- *)

\* positions a..b-1 of t hold a label: lowercase alphanumerics and hyphens,
\* neither starting nor ending with a hyphen
IsLabel(t, a, b) ==
    /\ 1 <= a /\ a < b /\ b <= Len(t) + 1
    /\ \A p \in a..(b - 1) : t[p] \in LabelChars
    /\ t[a] # "-"
    /\ t[b - 1] # "-"

\* every place where <label>.<label>.svc or <label>.<label>.svc.cluster.local
\* occurs in t: the first label in start..lab-1, the whole name in start..end-1
FqdnOccurrences(t) ==
    UNION {UNION {UNION {
        {[start |-> i, lab |-> j1, end |-> e] :
            e \in {j2 + 4} \cup (IF HasAt(t, j2 + 4, ClusterLocalLit)
                                 THEN {j2 + 4 + Len(ClusterLocalLit)} ELSE {})} :
        j2 \in {j \in (j1 + 2)..Len(t) :
                  t[j] = "." /\ IsLabel(t, j1 + 1, j) /\ HasAt(t, j + 1, SvcLit)}} :
        j1 \in {j \in (i + 1)..Len(t) : t[j] = "." /\ IsLabel(t, i, j)}} :
        i \in 1..Len(t)}

\* t without the positions in Drop
Without(t, Drop, r) ==
    LET Kept == (1..Len(t)) \ Drop IN
    /\ Len(r) = Cardinality(Kept)
    /\ \A p \in Kept : r[Cardinality({q \in Kept : q <= p})] = t[p]

HostnamePosition(t, i, key) ==
    /\ i > 1
    /\ t[i - 1] \in {"/", "@"}
    /\ HasAt(t, i, key)
    /\ \/ i + Len(key) = Len(t) + 1
       \/ At(t, i + Len(key)) \in {"/", ":"} \cup Whitespace \cup Quote

\* r is t with the occurrences of key that start at the positions in S
\* replaced by tgt and every other character kept
ReplacedAt(t, S, key, tgt, r) ==
    LET d == Len(tgt) - Len(key)
        before(p) == Cardinality({s \in S : s < p})
        covered(p) == \E s \in S : s <= p /\ p < s + Len(key)
    IN  /\ \A s1, s2 \in S : s1 < s2 => s1 + Len(key) <= s2
        /\ Len(r) = Len(t) + d * Cardinality(S)
        /\ \A p \in 1..Len(t) : ~covered(p) => r[p + d * before(p)] = t[p]
        /\ \A s \in S : HasAt(r, s + d * before(s), tgt)

Ran(stage, item) ==
    \E p \in 1..Len(log) : log[p].stage = stage /\ log[p].item = item

Began(stage) ==
    \E p \in 1..Len(log) : log[p].stage = stage

\* a network-config that holds nothing once its aliases are gone
EmptyWithoutAliases(cfg) ==
    cfg.t = "none" \/ DOMAIN cfg.d \subseteq {"aliases"}

Net1AliasesNet2Opts ==
    NetworksDict(("net1" :> CfgDict(Aliases)) @@ ("net2" :> CfgDict(DriverOpts)))

(* -------------------------------- C5 ----------------------------------- *)

\* C5: once _strip_aliases has handled a service, none of its network-configs
\* has an aliases field, whatever the field held, and a service all of whose
\* network-configs are then empty has no networks field; whatever the alias map.
StripRemovesAliases ==
    \A s \in DOMAIN compose_services :
        Ran("strip", s) =>
            LET n == compose_services[s].networks
                o == orig.services[s].networks
            IN  /\ \A x \in DOMAIN n.d :
                      n.d[x].t = "dict" => "aliases" \notin DOMAIN n.d[x].d
                /\ (o.t = "dict" /\ \A x \in DOMAIN o.d : EmptyWithoutAliases(o.d[x]))
                      => n.t = "absent"
                /\ n.t = "dict" => \E x \in DOMAIN n.d : ~Falsy(n.d[x])

\* a service whose only network-config held aliases has lost its networks
\* field, and one with aliases beside driver_opts has kept the driver_opts
StripWitness ==
    \E s1, s2 \in DOMAIN compose_services :
        /\ Ran("strip", s1) /\ Ran("strip", s2)
        /\ orig.services[s1].networks = NetworksDict("net1" :> CfgDict(Aliases))
        /\ compose_services[s1].networks = NetworksAbsent
        /\ orig.services[s2].networks = NetworksDict("net1" :> CfgDict(Aliases @@ DriverOpts))
        /\ compose_services[s2].networks = NetworksDict("net1" :> CfgDict(DriverOpts))

(* -------------------------------- C6 ----------------------------------- *)

EnvRewritten ==
    /\ \A s \in DOMAIN compose_services :
          Ran("env", s) =>
              LET n == compose_services[s].environment
                  o == orig.services[s].environment
              IN  /\ n.t = o.t
                  /\ DOMAIN n.d = DOMAIN o.d
                  /\ \A key \in DOMAIN o.d :
                        IF o.d[key].t = "str"
                        THEN LET want == _rewrite_text(o.d[key].s, alias_map) IN
                             /\ n.d[key] = Str(want)
                             /\ (<<"env", s, key>> \in assigned) <=> (want # o.d[key].s)
                        ELSE /\ n.d[key] = o.d[key]
                             /\ <<"env", s, key>> \notin assigned
                  /\ (o.t # "dict" \/ DOMAIN o.d = {}) => n = o
    /\ (pc = "raised" => Began("files"))

\* a URL with an FQDN flattened and then resolved through the alias map, and
\* a service whose environment has the list form, skipped
EnvWitness ==
    \E s1, s2 \in DOMAIN compose_services :
        /\ Ran("env", s1) /\ Ran("env", s2)
        /\ alias_map = ChainedMap
        /\ orig.services[s1].environment = EnvDict(("A" :> Str(PlainValue)) @@ ("B" :> Str(UrlFqdn)))
        /\ compose_services[s1].environment.d["B"] = Str(<<"/", "a", "b", ":", "8">>)
        /\ <<"env", s1, "B">> \in assigned
        /\ <<"env", s1, "A">> \notin assigned
        /\ orig.services[s2].environment = EnvList
        /\ compose_services[s2].environment = EnvList

(* -------------------------------- C7 ----------------------------------- *)

\* the target of the alias that is exactly host, or host itself
Resolved(host) ==
    LET hits == {i \in 1..Len(alias_map) : alias_map[i].alias = host} IN
    IF hits = {} THEN host ELSE alias_map[CHOOSE i \in hits : TRUE].target

\* C7: once _rewrite_caddy has handled an entry, its upstream is the
\* FQDN-normalized original with the host before the last colon looked up
\* once, as a whole, in the alias map (the whole string when there is no
\* colon); it was assigned only when that differs from the original, and a
\* missing or empty upstream is as it was.
CaddyUpstreamResolved ==
    \A i \in 1..Len(caddy_entries) :
        Ran("caddy", i) =>
            LET o == orig.caddy[i]
                u == GetOrEmpty(o.upstream)
                flat == _rewrite_k8s_dns(u)
                colons == {j \in 1..Len(flat) : flat[j] = ":"}
                want == IF colons = {} THEN Resolved(flat)
                        ELSE LET c == SetMax(colons) IN
                             Resolved(SubSeq(flat, 1, c - 1)) \o <<":">>
                                 \o SubSeq(flat, c + 1, Len(flat))
            IN  /\ IF want # u
                   THEN /\ caddy_entries[i].upstream = Set(want)
                        /\ <<"caddy", i, "upstream">> \in assigned
                   ELSE /\ caddy_entries[i].upstream = o.upstream
                        /\ <<"caddy", i, "upstream">> \notin assigned
                /\ u = <<>> => caddy_entries[i].upstream = o.upstream
                /\ (o.upstream = Set(ExUpstream) /\ alias_map = SvcAMap)
                      => caddy_entries[i].upstream = Set(ExUpstreamResolved)

\* the example of the specification resolved, and an entry without upstream
\* left without one
CaddyWitness ==
    \E i, j \in 1..Len(caddy_entries) :
        /\ Ran("caddy", i) /\ Ran("caddy", j)
        /\ alias_map = SvcAMap
        /\ orig.caddy[i].upstream = Set(ExUpstream)
        /\ caddy_entries[i].upstream = Set(ExUpstreamResolved)
        /\ orig.caddy[j].upstream = Missing
        /\ caddy_entries[j].upstream = Missing

(* -------------------------------- C9 ----------------------------------- *)

\* the place of a stage in the order the specification fixes
Rank(stage) ==
    CASE stage = "strip" -> 1
      [] stage = "env"   -> 2
      [] stage = "files" -> 3
      [] stage = "caddy" -> 4

\* C9: the iterations of transform run stage by stage, in the order strip,
\* env, files, caddy: no environment value is rewritten before every service
\* is stripped, no file is read or written before every environment is
\* rewritten, and no proxy entry is handled before the traversal of the
\* configmaps has finished.
StagesInOrder ==
    /\ \A p, q \in 1..Len(log) : p < q => Rank(log[p].stage) <= Rank(log[q].stage)
    /\ (Began("env") \/ \E a \in assigned : a[1] = "env")
          => \A s \in DOMAIN compose_services : Ran("strip", s)
    /\ (Began("files") \/ disk # orig.disk)
          => \A s \in DOMAIN compose_services : Ran("env", s)
    /\ (Began("caddy") \/ caddy_entries # orig.caddy)
          => /\ \A s \in DOMAIN compose_services : Ran("env", s)
             /\ cm_dir => \A f \in DOMAIN disk : Ran("files", f)
             /\ pc # "raised"

\* a whole run: every service stripped and rewritten, every file and every
\* entry handled
StagesWitness ==
    /\ pc = "done"
    /\ cm_dir
    /\ Len(log) = 2 * NumServices + NumFiles + NumEntries
    /\ caddy_entries # orig.caddy
    /\ disk # orig.disk

(* -------------------------------- C8 ----------------------------------- *)

\* C8: whatever fails while a configmap file is handled, the file holds
\* either the whole rewritten text or exactly what it held before.
FileRewriteAtomic ==
    \A f \in DOMAIN disk :
        \/ disk[f] = orig.disk[f]
        \/ disk[f] = _rewrite_text(orig.disk[f], alias_map)

(* -------------------------------- C4 ----------------------------------- *)

\* the host part of an upstream: what precedes its last colon
HostOf(u) ==
    LET colons == {j \in 1..Len(u) : u[j] = ":"} IN
    IF colons = {} THEN u ELSE SubSeq(u, 1, SetMax(colons) - 1)

\* C4: after transform, an environment value that contained the FQDN of a
\* proxy entry's upstream holds, in its place, the host that upstream now has.
SurfacesConverge ==
    pc = "done" =>
        \A i \in 1..Len(caddy_entries) :
        \A s \in DOMAIN compose_services :
        \A key \in DOMAIN orig.services[s].environment.d :
            LET v == orig.services[s].environment.d[key]
                host == HostOf(GetOrEmpty(caddy_entries[i].upstream))
            IN  (orig.caddy[i].upstream = Set(BareFqdn) /\ v.t = "str") =>
                    \A p \in 1..Len(v.s) :
                        HasAt(v.s, p, Fqdn) =>
                            compose_services[s].environment.d[key] =
                                Str(SubSeq(v.s, 1, p - 1) \o host
                                    \o SubSeq(v.s, p + Len(Fqdn), Len(v.s)))

====
